---- MODULE Spec2Model ----
(***************************************************************************)
(* The job queue of the IELTS writing platform: the jobs table, the        *)
(* worker command (claim_job, process_job and its error handler), and the  *)
(* two request handlers that create jobs (api_submit_attempt and           *)
(* api_retry_attempt).  Every database statement of the code is one step;  *)
(* an in-memory model instance (job, attempt) is a local copy that save()  *)
(* writes back whole, as Django's Model.save() does.                       *)
(***************************************************************************)
EXTENDS Integers, Sequences, FiniteSets, TLC

\* ------------------------------------------------------------------ bounds
\* rows the jobs table may hold (requests in flight reserve their row)
MaxJobs == 3
\* clock ticks the model lets pass
MaxTicks == 1
\* rows the attempts table may hold
MaxSubs == 2
\* store operations the model lets fail
MaxAborts == 1

\* worker processes (Command instances); the owners of requests
Workers == {"w1", "w2"}
Users == {"u1"}

\* ------------------------------------------------------- program constants
\* worker.py:164  `job.attempts < 2`
RetryLimit == 2
\* worker.py:166  `timedelta(seconds=30 * job.attempts)`
BackoffSeconds == 30
\* views.py:425   `timedelta(minutes=2)`
DedupSeconds == 120
\* the clock advances in steps of one backoff unit
TickSeconds == BackoffSeconds

\* null of a nullable column: a timestamp, a text
NoTime == 0 - 1
Null == "<null>"

\* constants.py: AttemptStatus, JobStatus
DRAFT == "DRAFT"
QUEUED == "QUEUED"
PROCESSING == "PROCESSING"
DONE == "DONE"
FAILED == "FAILED"
PENDING == "PENDING"
RUNNING == "RUNNING"
AttemptStatus == {DRAFT, QUEUED, PROCESSING, DONE, FAILED}
JobStatus == {PENDING, RUNNING, DONE, FAILED}

\* --------------------------------------------------------- error messages
\* str(e) of the exceptions processing can meet.
MsgFailme == "Test failure triggered by FAILME keyword"
MsgConnReset == "Connection reset by peer"
MsgValidation == "Validation failed after repair: 1 validation error for EvaluationSchema"
MsgIntegrity == "duplicate key value violates unique constraint"
\* the same for a payload that carries the extra field network_note: the
\* text of the pydantic error names the location of the error
MsgValidationExtra == "Validation failed after repair: 1 validation error for EvaluationSchema network_note Extra inputs are not permitted"
\* str(e) of a database error raised by a save(): a lost connection, a deadlock
MsgDbClosed == "connection already closed"
MsgDbDeadlock == "deadlock detected"

\* str(e) of other exceptions the scoring call may raise: errors of the HTTP
\* transport and of the provider, and json.loads on a reply that is not JSON
MsgTimeout == "Request Timeout"
MsgNetwork == "NETWORK is unreachable"
MsgTemporary == "Temporary failure in name resolution"
MsgRateLimit == "429 Rate Limit exceeded"
MsgQuota == "Quota exceeded for model"
MsgTimedOut == "The read operation timed out"
MsgRateLimited == "rate-limited by upstream"
MsgJson == "Expecting value: line 1 column 1 (char 0)"

\* what the scoring provider may raise
ProviderErrors == {MsgConnReset}

\* the characters of a message
Chars(m) ==
    CASE m = MsgFailme ->
           <<"T","e","s","t"," ","f","a","i","l","u","r","e"," ","t","r","i","g","g","e","r","e","d"," ","b","y"," ","F","A","I","L","M","E"," ","k","e","y","w","o","r","d">>
      [] m = MsgConnReset ->
           <<"C","o","n","n","e","c","t","i","o","n"," ","r","e","s","e","t"," ","b","y"," ","p","e","e","r">>
      [] m = MsgValidation ->
           <<"V","a","l","i","d","a","t","i","o","n"," ","f","a","i","l","e","d"," ","a","f","t","e","r"," ","r","e","p","a","i","r",":"," ","1"," ","v","a","l","i","d","a","t","i","o","n"," ","e","r","r","o","r"," ","f","o","r"," ","E","v","a","l","u","a","t","i","o","n","S","c","h","e","m","a">>
      [] m = MsgIntegrity ->
           <<"d","u","p","l","i","c","a","t","e"," ","k","e","y"," ","v","a","l","u","e"," ","v","i","o","l","a","t","e","s"," ","u","n","i","q","u","e"," ","c","o","n","s","t","r","a","i","n","t">>
      [] m = MsgDbClosed ->
           <<"c","o","n","n","e","c","t","i","o","n"," ","a","l","r","e","a","d","y"," ","c","l","o","s","e","d">>
      [] m = MsgDbDeadlock ->
           <<"d","e","a","d","l","o","c","k"," ","d","e","t","e","c","t","e","d">>
      [] m = MsgValidationExtra ->
           <<"V","a","l","i","d","a","t","i","o","n"," ","f","a","i","l","e","d"," ","a","f","t","e","r"," ","r","e","p","a","i","r",":"," ","1"," ","v","a","l","i","d","a","t","i","o","n"," ","e","r","r","o","r"," ","f","o","r"," ","E","v","a","l","u","a","t","i","o","n","S","c","h","e","m","a"," ","n","e","t","w","o","r","k","_","n","o","t","e"," ","E","x","t","r","a"," ","i","n","p","u","t","s"," ","a","r","e"," ","n","o","t"," ","p","e","r","m","i","t","t","e","d">>
      [] m = MsgTimeout ->
           <<"R","e","q","u","e","s","t"," ","T","i","m","e","o","u","t">>
      [] m = MsgNetwork ->
           <<"N","E","T","W","O","R","K"," ","i","s"," ","u","n","r","e","a","c","h","a","b","l","e">>
      [] m = MsgTemporary ->
           <<"T","e","m","p","o","r","a","r","y"," ","f","a","i","l","u","r","e"," ","i","n"," ","n","a","m","e"," ","r","e","s","o","l","u","t","i","o","n">>
      [] m = MsgRateLimit ->
           <<"4","2","9"," ","R","a","t","e"," ","L","i","m","i","t"," ","e","x","c","e","e","d","e","d">>
      [] m = MsgQuota ->
           <<"Q","u","o","t","a"," ","e","x","c","e","e","d","e","d"," ","f","o","r"," ","m","o","d","e","l">>
      [] m = MsgTimedOut ->
           <<"T","h","e"," ","r","e","a","d"," ","o","p","e","r","a","t","i","o","n"," ","t","i","m","e","d"," ","o","u","t">>
      [] m = MsgRateLimited ->
           <<"r","a","t","e","-","l","i","m","i","t","e","d"," ","b","y"," ","u","p","s","t","r","e","a","m">>
      [] m = MsgJson ->
           <<"E","x","p","e","c","t","i","n","g"," ","v","a","l","u","e",":"," ","l","i","n","e"," ","1"," ","c","o","l","u","m","n"," ","1"," ","(","c","h","a","r"," ","0",")">>

\* a comparison that keeps the letter case
LowerKeepCase(s) == s

\* str.lower() on one character
LowerChar(c) ==
    CASE c = "A" -> "a" [] c = "B" -> "b" [] c = "C" -> "c" [] c = "D" -> "d"
      [] c = "E" -> "e" [] c = "F" -> "f" [] c = "G" -> "g" [] c = "H" -> "h"
      [] c = "I" -> "i" [] c = "J" -> "j" [] c = "K" -> "k" [] c = "L" -> "l"
      [] c = "M" -> "m" [] c = "N" -> "n" [] c = "O" -> "o" [] c = "P" -> "p"
      [] c = "Q" -> "q" [] c = "R" -> "r" [] c = "S" -> "s" [] c = "T" -> "t"
      [] c = "U" -> "u" [] c = "V" -> "v" [] c = "W" -> "w" [] c = "X" -> "x"
      [] c = "Y" -> "y" [] c = "Z" -> "z" [] OTHER -> c

Lower(s) == [i \in 1..Len(s) |-> LowerChar(s[i])]

\* `keyword in error_str`
Contains(s, k) ==
    \E i \in 0..(Len(s) - Len(k)) : \A n \in 1..Len(k) : s[i + n] = k[n]

transient_keywords ==
    { <<"t","i","m","e","o","u","t">>,
      <<"c","o","n","n","e","c","t","i","o","n">>,
      <<"n","e","t","w","o","r","k">>,
      <<"t","e","m","p","o","r","a","r","y">>,
      <<"r","a","t","e"," ","l","i","m","i","t">>,
      <<"q","u","o","t","a">> }

\* worker.py:191-200  lower(), then any(keyword in error_str ...)
HasTransientKeyword(error) ==
    LET error_str == Lower(Chars(error))
    IN  \E keyword \in transient_keywords : Contains(error_str, keyword)

Messages == {MsgFailme, MsgConnReset, MsgValidation, MsgIntegrity,
             MsgDbClosed, MsgDbDeadlock, MsgValidationExtra, MsgTimeout,
             MsgNetwork, MsgTemporary, MsgRateLimit, MsgQuota, MsgTimedOut,
             MsgRateLimited, MsgJson}

\* what a save() may raise
StoreErrors == {MsgDbClosed, MsgDbDeadlock}
TransientMessages == { m \in Messages : HasTransientKeyword(m) }

\* worker.py: Command.is_transient_error
is_transient_error(error) == error \in TransientMessages

\* ------------------------------------------------- evaluation payloads
\* A payload is a dict: a function whose DOMAIN is the set of keys present.
\* Scores are in tenths of a band (7.0 is 70).  A list is tagged "list", any
\* other JSON value "other", so that isinstance(x, list) can be asked.
criteria_keys == {"task_response", "coherence_cohesion", "lexical_resource", "grammar_accuracy"}
schema_keys == {"overall_band", "criteria_scores", "feedback", "priority_fixes", "improved_essay"}

List(items) == [type |-> "list", items |-> items]
Other(text) == [type |-> "other", items |-> <<text>>]
IsList(v) == v.type = "list"

\* schemas.py: Field(ge=1.0, le=9.0) and the half-point validators
ScoreOk(v) == v >= 10 /\ v <= 90 /\ (v * 2) % 10 = 0

\* schemas.py: CriteriaScores
CriteriaScoresOk(c) ==
    /\ criteria_keys \subseteq DOMAIN c
    /\ \A k \in criteria_keys : ScoreOk(c[k])

\* schemas.py: Feedback
FeedbackOk(f) ==
    /\ criteria_keys \subseteq DOMAIN f
    /\ \A k \in criteria_keys : IsList(f[k]) /\ Len(f[k].items) >= 1

\* schemas.py: EvaluationSchema.model_validate succeeds
Validate(p) ==
    /\ DOMAIN p \subseteq schema_keys
    /\ "overall_band" \in DOMAIN p /\ ScoreOk(p.overall_band)
    /\ "criteria_scores" \in DOMAIN p /\ CriteriaScoresOk(p.criteria_scores)
    /\ "feedback" \in DOMAIN p /\ FeedbackOk(p.feedback)
    /\ "priority_fixes" \in DOMAIN p
    /\ IsList(p.priority_fixes)
    /\ Len(p.priority_fixes.items) >= 3 /\ Len(p.priority_fixes.items) <= 5

\* dict[key] = value
Put(d, k, v) == (k :> v) @@ d

\* a built-in list of two placeholders
DefaultFixesTwo == <<"Focus on task requirements", "Improve organization">>

\* worker.py:233  the built-in list of a payload without priority_fixes
DefaultFixes == <<"Focus on task requirements", "Improve organization", "Enhance vocabulary">>
\* worker.py:238  the items a short list is extended with
PadPool == <<"Improve clarity", "Enhance coherence", "Develop ideas">>

\* a length adjustment that pads a short list and leaves a long one alone
RepairFixesLengthNoCut(fx) ==
    IF Len(fx.items) < 3
    THEN List(fx.items \o SubSeq(PadPool, 1, 3 - Len(fx.items)))
    ELSE fx

\* worker.py: repair_evaluation, lines 237-240
RepairFixesLength(fx) ==
    IF Len(fx.items) < 3
    THEN List(fx.items \o SubSeq(PadPool, 1, 3 - Len(fx.items)))
    ELSE IF Len(fx.items) > 5
         THEN List(SubSeq(fx.items, 1, 5))
         ELSE fx

\* a repair that also resets a band outside the scale to 5.0
repair_evaluation_clamp(result) ==
    LET r1 == IF "overall_band" \notin DOMAIN result
              THEN Put(result, "overall_band", 50)
              ELSE IF result.overall_band < 10 \/ result.overall_band > 90
                   THEN Put(result, "overall_band", 50) ELSE result
        r2 == IF "criteria_scores" \notin DOMAIN r1
              THEN Put(r1, "criteria_scores", <<>>) ELSE r1
        cs == [k \in (DOMAIN r2.criteria_scores) \cup criteria_keys |->
                 IF k \in DOMAIN r2.criteria_scores THEN r2.criteria_scores[k] ELSE 50]
        r3 == Put(r2, "criteria_scores", cs)
        r4 == IF "feedback" \notin DOMAIN r3
              THEN Put(r3, "feedback", <<>>) ELSE r3
        fb == [k \in (DOMAIN r4.feedback) \cup criteria_keys |->
                 IF k \notin DOMAIN r4.feedback THEN List(<<"No feedback available">>)
                 ELSE IF k \in criteria_keys /\ ~IsList(r4.feedback[k])
                      THEN List(r4.feedback[k].items)
                 ELSE r4.feedback[k]]
        r5 == Put(r4, "feedback", fb)
        r6 == IF "priority_fixes" \notin DOMAIN r5
              THEN Put(r5, "priority_fixes", List(DefaultFixes))
              ELSE IF ~IsList(r5.priority_fixes)
                   THEN Put(r5, "priority_fixes", List(r5.priority_fixes.items))
                   ELSE r5
    IN  Put(r6, "priority_fixes", RepairFixesLength(r6.priority_fixes))

\* worker.py: repair_evaluation
repair_evaluation(result) ==
    LET r1 == IF "overall_band" \notin DOMAIN result
              THEN Put(result, "overall_band", 50) ELSE result
        r2 == IF "criteria_scores" \notin DOMAIN r1
              THEN Put(r1, "criteria_scores", <<>>) ELSE r1
        cs == [k \in (DOMAIN r2.criteria_scores) \cup criteria_keys |->
                 IF k \in DOMAIN r2.criteria_scores THEN r2.criteria_scores[k] ELSE 50]
        r3 == Put(r2, "criteria_scores", cs)
        r4 == IF "feedback" \notin DOMAIN r3
              THEN Put(r3, "feedback", <<>>) ELSE r3
        fb == [k \in (DOMAIN r4.feedback) \cup criteria_keys |->
                 IF k \notin DOMAIN r4.feedback THEN List(<<"No feedback available">>)
                 ELSE IF k \in criteria_keys /\ ~IsList(r4.feedback[k])
                      THEN List(r4.feedback[k].items)
                 ELSE r4.feedback[k]]
        r5 == Put(r4, "feedback", fb)
        r6 == IF "priority_fixes" \notin DOMAIN r5
              THEN Put(r5, "priority_fixes", List(DefaultFixes))
              ELSE IF ~IsList(r5.priority_fixes)
                   THEN Put(r5, "priority_fixes", List(r5.priority_fixes.items))
                   ELSE r5
    IN  Put(r6, "priority_fixes", RepairFixesLength(r6.priority_fixes))

\* ai_provider.py: get_mock_evaluation, from the essay's word count
get_mock_evaluation(word_count) ==
    LET base_score == IF word_count >= 250 THEN 70
                      ELSE IF word_count >= 200 THEN 65
                      ELSE IF word_count >= 150 THEN 60 ELSE 50
    IN  [overall_band |-> base_score,
         criteria_scores |-> [task_response |-> base_score,
                              coherence_cohesion |-> base_score - 5,
                              lexical_resource |-> base_score + 5,
                              grammar_accuracy |-> base_score],
         feedback |-> [k \in criteria_keys |-> List(<<"point 1", "point 2">>)],
         priority_fixes |-> List(<<"fix 1", "fix 2", "fix 3">>),
         improved_essay |-> Null]

\* what a live provider may return besides: a payload without priority_fixes,
\* and one whose overall band is off the scale
PayloadNoFixes ==
    [k \in {"overall_band", "criteria_scores", "feedback"} |-> get_mock_evaluation(260)[k]]
PayloadBadBand == Put(get_mock_evaluation(260), "overall_band", 95)
ProviderPayloads == {PayloadNoFixes, PayloadBadBand}

\* a reply that carries a field of its own
PayloadExtraField == Put(get_mock_evaluation(260), "network_note", Other("n/a"))

\* worker.py:137  the message of the exception raised for a payload that is
\* invalid after repair: str(repair_error) names the fields in error
ValidationMessage(p) ==
    IF "network_note" \in DOMAIN p THEN MsgValidationExtra ELSE MsgValidation

\* ------------------------------------------------------------------ essays
\* An essay text is known by its name; count_words and the FAILME test are
\* tabulated for the texts of the model.
EssayShort == "essay of 80 words"
EssayAlmost == "essay of 149 words"
EssayPlain == "essay of 260 words"
EssayFailme == "essay of 260 words with FAILME"
Essays == {EssayShort, EssayAlmost, EssayPlain, EssayFailme}
\* a text with ten tokens such as "and/or": two words each for the pattern of
\* count_words, one each for str.split()
EssaySlashes == "essay of 255 words, 245 when split at whitespace"

\* evaluation/utils.py: count_words
count_words(text) ==
    IF text = EssayShort THEN 80 ELSE IF text = EssayAlmost THEN 149
    ELSE IF text = EssaySlashes THEN 255 ELSE 260

\* ai_provider.py:162  len(essay_text.split())
split_count(text) ==
    IF text = EssayShort THEN 80 ELSE IF text = EssayAlmost THEN 149
    ELSE IF text = EssaySlashes THEN 245 ELSE 260

\* worker.py:119  'FAILME' in attempt.essay_text
ContainsFailme(text) == text = EssayFailme

\* Task.min_words of the one task of the model
min_words == 150

\* ------------------------------------------------------------------- state
VARIABLES
    now,        \* timezone.now(), in seconds
    jobs,       \* the jobs table, rows in order of created_at
    subs,       \* the attempts table (the submissions), rows in order of creation
    results,    \* the evaluation_results table
    reqs,       \* requests past their checks and before their transaction:
                \* how many of each are in flight
    pc,         \* where each worker is in claim_job / process_job
    held,       \* the row of the worker's Job instance (0: none)
    job,        \* the worker's in-memory Job instance
    attempt,    \* the worker's in-memory Attempt instance
    err,        \* str(e) of the exception process_job caught
    claims,     \* history: how often each job was claimed
    rescheds,   \* history: how often each job was rescheduled
    aborts,     \* history: how many store operations failed
    rejected,   \* history: the essays whose submit request was rejected
    shutdown,   \* self.shutdown of each worker
    probe       \* a function under examination: its argument and its value

vars == <<now, jobs, subs, results, reqs, pc, held, job, attempt, err,
          claims, rescheds, aborts, rejected, shutdown, probe>>
db == <<jobs, subs, results>>
locals == <<held, job, attempt, err>>
history == <<claims, rescheds, aborts, rejected>>

\* models.py: Job, its column defaults
NewJob(s) ==
    [attempt |-> s, status |-> PENDING, run_after |-> now, locked_at |-> NoTime,
     locked_by |-> Null, attempts |-> 0, last_error |-> Null]

\* models.py: Attempt, as api_submit_attempt fills it before the insert
NewAttempt(u, e) ==
    [user |-> u, status |-> QUEUED, essay_text |-> e, word_count |-> count_words(e),
     error_message |-> Null, submitted_at |-> NoTime, completed_at |-> NoTime,
     created_at |-> NoTime]

\* a worker holding no instance
NoJob == [attempt |-> 0, status |-> Null, run_after |-> NoTime, locked_at |-> NoTime,
          locked_by |-> Null, attempts |-> 0, last_error |-> Null]
NoAttempt == [user |-> Null, status |-> Null, essay_text |-> Null, word_count |-> 0,
              error_message |-> Null, submitted_at |-> NoTime, completed_at |-> NoTime,
              created_at |-> NoTime]

\* no function is under examination
NoProbe == [fn |-> "none"]

\* Command.__init__: worker_id, one per worker process
worker_id(w) == w

\* the tables are empty and every worker is about to enter its loop
Start ==
    /\ now = 0
    /\ jobs = <<>>
    /\ subs = <<>>
    /\ results = {}
    /\ reqs = <<>>
    /\ pc = [w \in Workers |-> "idle"]
    /\ held = [w \in Workers |-> 0]
    /\ job = [w \in Workers |-> NoJob]
    /\ attempt = [w \in Workers |-> NoAttempt]
    /\ err = [w \in Workers |-> Null]
    /\ claims = <<>>
    /\ rescheds = <<>>
    /\ aborts = 0
    /\ rejected = {}
    /\ shutdown = [w \in Workers |-> FALSE]

Init == Start /\ probe = NoProbe

\* requests in flight, as a multiset
NumInFlight == LET Sum[S \in SUBSET DOMAIN reqs] ==
                     IF S = {} THEN 0
                     ELSE LET r == CHOOSE x \in S : TRUE IN reqs[r] + Sum[S \ {r}]
               IN  Sum[DOMAIN reqs]
NumSubmits == LET Sum[S \in SUBSET DOMAIN reqs] ==
                     IF S = {} THEN 0
                     ELSE LET r == CHOOSE x \in S : TRUE
                          IN (IF r.op = "submit" THEN reqs[r] ELSE 0) + Sum[S \ {r}]
               IN  Sum[DOMAIN reqs]
Arrive(r) == IF r \in DOMAIN reqs THEN [reqs EXCEPT ![r] = @ + 1] ELSE (r :> 1) @@ reqs
Leave(r) == IF reqs[r] > 1 THEN [reqs EXCEPT ![r] = @ - 1]
            ELSE [x \in DOMAIN reqs \ {r} |-> reqs[x]]

\* the clock
Tick ==
    /\ now + TickSeconds <= MaxTicks * TickSeconds
    /\ now' = now + TickSeconds
    /\ UNCHANGED <<db, reqs, pc, locals, history, shutdown, probe>>

\* ------------------------------------------------------- request handlers
\* views.py: api_submit_attempt, the duplicate lookup of lines 425-431
RecentActive(u) ==
    { s \in DOMAIN subs :
        /\ subs[s].user = u
        /\ subs[s].status \in {QUEUED, PROCESSING}
        /\ subs[s].created_at >= now - DedupSeconds }

\* the request let through whatever the word count
SubmitCheckNoFloor(u, e) ==
    /\ Len(jobs) + NumInFlight < MaxJobs
    /\ Len(subs) + NumSubmits < MaxSubs
    /\ RecentActive(u) = {}
    /\ reqs' = Arrive([op |-> "submit", id |-> 0, attempt |-> NewAttempt(u, e)])
    /\ UNCHANGED <<now, db, pc, locals, history, shutdown, probe>>

\* views.py: api_submit_attempt up to the transaction: the word count floor
\* and the duplicate lookup let the request through
SubmitCheck(u, e) ==
    /\ Len(jobs) + NumInFlight < MaxJobs
    /\ Len(subs) + NumSubmits < MaxSubs
    /\ ~(count_words(e) < min_words)
    /\ RecentActive(u) = {}
    /\ reqs' = Arrive([op |-> "submit", id |-> 0, attempt |-> NewAttempt(u, e)])
    /\ UNCHANGED <<now, db, pc, locals, history, shutdown, probe>>

\* views.py: api_submit_attempt, the transaction of lines 440-457
SubmitCreate(r) ==
    /\ r.op = "submit"
    /\ subs' = Append(subs, [r.attempt EXCEPT !.submitted_at = now, !.created_at = now])
    /\ jobs' = Append(jobs, NewJob(Len(subs) + 1))
    /\ claims' = Append(claims, 0)
    /\ rescheds' = Append(rescheds, 0)
    /\ UNCHANGED <<aborts, rejected, shutdown, probe>>
    /\ reqs' = Leave(r)
    /\ UNCHANGED <<now, results, pc, locals>>

\* views.py: api_retry_attempt up to the transaction: the attempt is read
\* and found FAILED
RetryCheck(s) ==
    /\ Len(jobs) + NumInFlight < MaxJobs
    /\ subs[s].status = FAILED
    /\ reqs' = Arrive([op |-> "retry", id |-> s, attempt |-> subs[s]])
    /\ UNCHANGED <<now, db, pc, locals, history, shutdown, probe>>

\* a retry that puts the Failed jobs of the attempt back to Pending instead
\* of creating a job
RetryCommitResume(r) ==
    /\ r.op = "retry"
    /\ subs' = [subs EXCEPT ![r.id] =
                  [r.attempt EXCEPT !.status = QUEUED, !.error_message = Null,
                                    !.submitted_at = now]]
    /\ jobs' = [j \in DOMAIN jobs |->
                  IF jobs[j].attempt = r.id /\ jobs[j].status = FAILED
                  THEN [jobs[j] EXCEPT !.status = PENDING] ELSE jobs[j]]
    /\ reqs' = Leave(r)
    /\ UNCHANGED <<now, results, pc, locals, history, shutdown, probe>>

\* views.py: api_retry_attempt, the transaction of lines 659-671
RetryCommit(r) ==
    /\ r.op = "retry"
    /\ subs' = [subs EXCEPT ![r.id] =
                  [r.attempt EXCEPT !.status = QUEUED, !.error_message = Null,
                                    !.submitted_at = now]]
    /\ jobs' = Append(jobs, NewJob(r.id))
    /\ claims' = Append(claims, 0)
    /\ rescheds' = Append(rescheds, 0)
    /\ UNCHANGED <<aborts, rejected, shutdown, probe>>
    /\ reqs' = Leave(r)
    /\ UNCHANGED <<now, results, pc, locals>>

\* --------------------------------------------------------------- claim_job
\* a row lock taken by SELECT ... FOR UPDATE is held until the transaction ends
RowLocked(j) == \E w \in Workers : pc[w] = "claim_locked" /\ held[w] = j

\* a filter on run_after alone
EligibleAnyStatus(j) == jobs[j].run_after <= now

\* a filter that also takes a Running row whose lock is not of this instant
EligibleOrStale(j) ==
    \/ jobs[j].status = PENDING /\ jobs[j].run_after <= now
    \/ jobs[j].status = RUNNING /\ jobs[j].locked_at < now

\* worker.py:84-85  filter(status=PENDING, run_after__lte=now)
Eligible(j) == jobs[j].status = PENDING /\ jobs[j].run_after <= now

\* a claimer that waits for the lock on the earliest eligible row: it gets
\* no row while an earlier eligible row is locked
ClaimableFirstOnly(j) ==
    /\ Eligible(j) /\ ~RowLocked(j)
    /\ \A k \in DOMAIN jobs : (k < j /\ Eligible(k)) => ~RowLocked(k)

\* select_for_update without skip_locked, and not waiting either
ClaimableNoSkip(j) == Eligible(j)

\* worker.py:83  select_for_update(skip_locked=True) over the filter
Claimable(j) == Eligible(j) /\ ~RowLocked(j)

\* the newest row instead of the oldest
LastCreated(S) == CHOOSE j \in S : \A k \in S : k <= j

\* worker.py:86  order_by('created_at').first()
FirstCreated(S) == CHOOSE j \in S : \A k \in S : j <= k

\* the claim that leaves the lock timestamp as it was
ClaimFieldsNoLockTime(jr, w) ==
    [jr EXCEPT !.status = RUNNING, !.locked_by = worker_id(w),
               !.attempts = jr.attempts + 1]

\* the claim without the increment of attempts
ClaimFieldsNoIncrement(jr, w) ==
    [jr EXCEPT !.status = RUNNING, !.locked_at = now, !.locked_by = worker_id(w)]

\* worker.py:89-92  the fields claim_job sets
ClaimFields(jr, w) ==
    [jr EXCEPT !.status = RUNNING, !.locked_at = now, !.locked_by = worker_id(w),
               !.attempts = jr.attempts + 1]

\* the worker returns from claim_job or process_job: its instances are gone
Return(w) ==
    /\ pc' = [pc EXCEPT ![w] = "idle"]
    /\ held' = [held EXCEPT ![w] = 0]
    /\ job' = [job EXCEPT ![w] = NoJob]
    /\ attempt' = [attempt EXCEPT ![w] = NoAttempt]
    /\ err' = [err EXCEPT ![w] = Null]

\* a loop that goes on claiming whatever the flag says
ClaimSelectNoFlag(w) ==
    /\ pc[w] = "idle"
    /\ LET S == { j \in DOMAIN jobs : Claimable(j) }
       IN  IF S = {}
           THEN UNCHANGED <<pc, held, job>>
           ELSE /\ pc' = [pc EXCEPT ![w] = "claim_locked"]
                /\ held' = [held EXCEPT ![w] = FirstCreated(S)]
                /\ job' = [job EXCEPT ![w] = jobs[FirstCreated(S)]]
    /\ UNCHANGED <<now, db, reqs, attempt, err, history, shutdown, probe>>

\* worker.py:48  while not self.shutdown: the loop calls claim_job;
\* worker.py:82-86  the transaction begins and selects the row, locking it;
\* with no row claim_job returns None, handle sleeps and calls it again
ClaimSelect(w) ==
    /\ pc[w] = "idle"
    /\ ~shutdown[w]
    /\ LET S == { j \in DOMAIN jobs : Claimable(j) }
       IN  IF S = {}
           THEN UNCHANGED <<pc, held, job>>
           ELSE /\ pc' = [pc EXCEPT ![w] = "claim_locked"]
                /\ held' = [held EXCEPT ![w] = FirstCreated(S)]
                /\ job' = [job EXCEPT ![w] = jobs[FirstCreated(S)]]
    /\ UNCHANGED <<now, db, reqs, attempt, err, history, shutdown, probe>>

\* worker.py:88-96  the fields are set and saved, the transaction commits
\* and claim_job returns the job
ClaimUpdate(w) ==
    /\ pc[w] = "claim_locked"
    /\ job' = [job EXCEPT ![w] = ClaimFields(job[w], w)]
    /\ jobs' = [jobs EXCEPT ![held[w]] = job'[w]]
    /\ claims' = [claims EXCEPT ![held[w]] = @ + 1]
    /\ pc' = [pc EXCEPT ![w] = "process"]
    /\ UNCHANGED <<now, subs, results, reqs, held, attempt, err, rescheds, aborts,
                   rejected, shutdown, probe>>

\* an abort that leaves the status written
ClaimAbortDirty(w) ==
    /\ pc[w] = "claim_locked"
    /\ aborts < MaxAborts
    /\ aborts' = aborts + 1
    /\ jobs' = [jobs EXCEPT ![held[w]].status = RUNNING]
    /\ Return(w)
    /\ UNCHANGED <<now, subs, results, reqs, claims, rescheds, rejected, shutdown, probe>>

\* worker.py:97-100  the store raises inside the transaction: it rolls back,
\* the exception is logged and claim_job returns None
ClaimAbort(w) ==
    /\ pc[w] = "claim_locked"
    /\ aborts < MaxAborts
    /\ aborts' = aborts + 1
    /\ Return(w)
    /\ UNCHANGED <<now, db, reqs, claims, rescheds, rejected, shutdown, probe>>

\* ------------------------------------------------------------- process_job
\* worker.py:111  attempt = job.attempt
ProcessLoad(w) ==
    /\ pc[w] = "process"
    /\ attempt' = [attempt EXCEPT ![w] = subs[job[w].attempt]]
    /\ pc' = [pc EXCEPT ![w] = "mark"]
    /\ UNCHANGED <<now, db, reqs, held, job, err, history, shutdown, probe>>

\* worker.py:114-115  the attempt is saved as PROCESSING
MarkProcessing(w) ==
    /\ pc[w] = "mark"
    /\ attempt' = [attempt EXCEPT ![w].status = PROCESSING]
    /\ subs' = [subs EXCEPT ![job[w].attempt] = attempt'[w]]
    /\ pc' = [pc EXCEPT ![w] = "evaluate"]
    /\ UNCHANGED <<now, jobs, results, reqs, held, job, err, history, shutdown, probe>>

\* ai_provider.py: evaluate_writing returns the mock evaluation or what the
\* live provider sent
Returned(text) == {get_mock_evaluation(split_count(text))} \cup ProviderPayloads

\* a limit of three attempts
ShouldRetryThree(e, jr) == is_transient_error(e) /\ jr.attempts < RetryLimit + 1

\* a retry of every transient error, with no limit
ShouldRetryTransient(e, jr) == is_transient_error(e)

\* a retry whatever the error
ShouldRetryAlways(e, jr) == jr.attempts < RetryLimit

\* worker.py:162-164  is_transient and job.attempts < 2
ShouldRetry(e, jr) == is_transient_error(e) /\ jr.attempts < RetryLimit

\* worker.py:165-167  the fields of a rescheduled job
RescheduleFields(jr, msg) ==
    [jr EXCEPT !.status = PENDING, !.run_after = now + BackoffSeconds * jr.attempts,
               !.last_error = msg]

\* worker.py:158-174  the handler, entered with str(e): a transient error
\* under the retry limit reschedules the job and process_job returns; any
\* other error saves the attempt as FAILED
Handle(w, msg) ==
    IF ShouldRetry(msg, job[w])
    THEN /\ jobs' = [jobs EXCEPT ![held[w]] = RescheduleFields(job[w], msg)]
         /\ rescheds' = [rescheds EXCEPT ![held[w]] = @ + 1]
         /\ Return(w)
         /\ UNCHANGED <<subs, claims, aborts, rejected, shutdown, probe>>
    ELSE /\ attempt' = [attempt EXCEPT ![w].status = FAILED, ![w].error_message = msg]
         /\ subs' = [subs EXCEPT ![job[w].attempt] = attempt'[w]]
         /\ err' = [err EXCEPT ![w] = msg]
         /\ pc' = [pc EXCEPT ![w] = "fail_job"]
         /\ UNCHANGED <<jobs, held, job, history, shutdown, probe>>

\* models.py: EvaluationResult, the row process_job inserts
NewResult(s, v) ==
    [attempt |-> s, overall_band |-> v.overall_band,
     criteria_scores |-> v.criteria_scores,
     priority_fixes |-> v.priority_fixes.items]

\* an insert with no unique constraint on attempt
StoreNoConstraint(w, v) ==
    /\ results' = results \cup {NewResult(job[w].attempt, v)}
    /\ pc' = [pc EXCEPT ![w] = "attempt_done"]
    /\ UNCHANGED <<jobs, subs, held, job, attempt, err, history, shutdown, probe>>

\* worker.py:139-147  the result is inserted; attempt is a OneToOneField, so
\* a second result for the attempt raises IntegrityError
Store(w, v) ==
    IF \E r \in results : r.attempt = job[w].attempt
    THEN /\ Handle(w, MsgIntegrity)
         /\ UNCHANGED results
    ELSE /\ results' = results \cup {NewResult(job[w].attempt, v)}
         /\ pc' = [pc EXCEPT ![w] = "attempt_done"]
         /\ UNCHANGED <<jobs, subs, held, job, attempt, err, history, shutdown, probe>>

\* worker.py:119-147 and 158-174  the FAILME test, the scoring call,
\* validation and the one repair, up to the statement that follows them:
\* the insert of the result, or the handler's first save
EvaluateOutcome(w, errors, replies) ==
    /\ pc[w] = "evaluate"
    /\ \/ /\ ContainsFailme(attempt[w].essay_text)
          /\ Handle(w, MsgFailme)
          /\ UNCHANGED results
       \/ /\ ~ContainsFailme(attempt[w].essay_text)
          /\ \E msg \in errors : Handle(w, msg)
          /\ UNCHANGED results
       \/ /\ ~ContainsFailme(attempt[w].essay_text)
          /\ \E result \in replies :
               IF Validate(result)
               THEN Store(w, result)
               ELSE IF Validate(repair_evaluation(result))
                    THEN Store(w, repair_evaluation(result))
                    ELSE /\ Handle(w, ValidationMessage(repair_evaluation(result)))
                         /\ UNCHANGED results
    /\ UNCHANGED <<now, reqs>>

\* the step when the scoring call may raise one of ProviderErrors
EvaluateReplies(w, replies) == EvaluateOutcome(w, ProviderErrors, replies)

\* ai_provider.py:31-33  no AI_API_KEY is set: evaluate_writing returns
\* get_mock_evaluation(essay_text) and raises nothing
EvaluateMock(w) ==
    EvaluateOutcome(w, {}, {get_mock_evaluation(split_count(attempt[w].essay_text))})

\* the step with the replies of the mock scorer and of ProviderPayloads
Evaluate(w) == EvaluateReplies(w, Returned(attempt[w].essay_text))

\* the step when the provider may also reply with PayloadExtraField
EvaluateLive(w) ==
    EvaluateReplies(w, Returned(attempt[w].essay_text) \cup {PayloadExtraField})

\* worker.py:149-151  the attempt is saved as DONE
AttemptDone(w) ==
    /\ pc[w] = "attempt_done"
    /\ attempt' = [attempt EXCEPT ![w].status = DONE, ![w].completed_at = now]
    /\ subs' = [subs EXCEPT ![job[w].attempt] = attempt'[w]]
    /\ pc' = [pc EXCEPT ![w] = "job_done"]
    /\ UNCHANGED <<now, jobs, results, reqs, held, job, err, history, shutdown, probe>>

\* worker.py:153-156  the job is saved as DONE and process_job returns
JobDone(w) ==
    /\ pc[w] = "job_done"
    /\ jobs' = [jobs EXCEPT ![held[w]] = [job[w] EXCEPT !.status = DONE]]
    /\ Return(w)
    /\ UNCHANGED <<now, subs, results, reqs, history, shutdown, probe>>

\* worker.py:176-180  the job is saved as FAILED and process_job returns
FailJob(w) ==
    /\ pc[w] = "fail_job"
    /\ jobs' = [jobs EXCEPT ![held[w]] =
                  [job[w] EXCEPT !.status = FAILED, !.last_error = err[w]]]
    /\ Return(w)
    /\ UNCHANGED <<now, subs, results, reqs, history, shutdown, probe>>

\* ---------------------------------------------------------- specifications
Next ==
    \/ Tick
    \/ \E u \in Users, e \in Essays : SubmitCheck(u, e)
    \/ \E r \in DOMAIN reqs : SubmitCreate(r)
    \/ \E s \in DOMAIN subs : RetryCheck(s)
    \/ \E r \in DOMAIN reqs : RetryCommit(r)
    \/ \E w \in Workers : ClaimSelect(w)
    \/ \E w \in Workers : ClaimUpdate(w)
    \/ \E w \in Workers : ProcessLoad(w)
    \/ \E w \in Workers : MarkProcessing(w)
    \/ \E w \in Workers : Evaluate(w)
    \/ \E w \in Workers : AttemptDone(w)
    \/ \E w \in Workers : JobDone(w)
    \/ \E w \in Workers : FailJob(w)

\* the store works
Spec == Init /\ [][Next]_vars

\* the provider may also reply with a payload that carries a field of its own
NextPayloads ==
    \/ Tick
    \/ \E u \in Users, e \in Essays : SubmitCheck(u, e)
    \/ \E r \in DOMAIN reqs : SubmitCreate(r)
    \/ \E s \in DOMAIN subs : RetryCheck(s)
    \/ \E r \in DOMAIN reqs : RetryCommit(r)
    \/ \E w \in Workers : ClaimSelect(w)
    \/ \E w \in Workers : ClaimUpdate(w)
    \/ \E w \in Workers : ProcessLoad(w)
    \/ \E w \in Workers : MarkProcessing(w)
    \/ \E w \in Workers : EvaluateLive(w)
    \/ \E w \in Workers : AttemptDone(w)
    \/ \E w \in Workers : JobDone(w)
    \/ \E w \in Workers : FailJob(w)

SpecPayloads == Init /\ [][NextPayloads]_vars

\* the essays submitted when the scorer is the mock
MockEssays == Essays \cup {EssaySlashes}

\* no provider credentials: every evaluation is the mock's
NextMock ==
    \/ Tick
    \/ \E u \in Users, e \in MockEssays : SubmitCheck(u, e)
    \/ \E r \in DOMAIN reqs : SubmitCreate(r)
    \/ \E s \in DOMAIN subs : RetryCheck(s)
    \/ \E r \in DOMAIN reqs : RetryCommit(r)
    \/ \E w \in Workers : ClaimSelect(w)
    \/ \E w \in Workers : ClaimUpdate(w)
    \/ \E w \in Workers : ProcessLoad(w)
    \/ \E w \in Workers : MarkProcessing(w)
    \/ \E w \in Workers : EvaluateMock(w)
    \/ \E w \in Workers : AttemptDone(w)
    \/ \E w \in Workers : JobDone(w)
    \/ \E w \in Workers : FailJob(w)

SpecMock == Init /\ [][NextMock]_vars

\* worker.py:122-125  the provider replies with a payload that lacks
\* priority_fixes and is valid otherwise
EvaluateNoFixes(w) == EvaluateReplies(w, {PayloadNoFixes})

\* every reply of the provider lacks priority_fixes
NextRoundTrip ==
    \/ Tick
    \/ \E u \in Users, e \in Essays : SubmitCheck(u, e)
    \/ \E r \in DOMAIN reqs : SubmitCreate(r)
    \/ \E s \in DOMAIN subs : RetryCheck(s)
    \/ \E r \in DOMAIN reqs : RetryCommit(r)
    \/ \E w \in Workers : ClaimSelect(w)
    \/ \E w \in Workers : ClaimUpdate(w)
    \/ \E w \in Workers : ProcessLoad(w)
    \/ \E w \in Workers : MarkProcessing(w)
    \/ \E w \in Workers : EvaluateNoFixes(w)
    \/ \E w \in Workers : AttemptDone(w)
    \/ \E w \in Workers : JobDone(w)
    \/ \E w \in Workers : FailJob(w)

SpecRoundTrip == Init /\ [][NextRoundTrip]_vars

\* views.py:420-423  api_submit_attempt raises MinWordCountError before the
\* duplicate lookup and the transaction: nothing is written
SubmitReject(u, e) ==
    /\ count_words(e) < min_words
    /\ rejected' = rejected \cup {e}
    /\ UNCHANGED <<now, db, reqs, pc, locals, claims, rescheds, aborts, shutdown, probe>>

NextRequests == Next \/ \E u \in Users, e \in Essays : SubmitReject(u, e)

\* the store works; rejected submit requests are recorded
SpecRequests == Init /\ [][NextRequests]_vars

\* worker.py:114-115, 149-151, 153-154  a save() inside the try block raises:
\* the instance already carries the new field values, and the handler of
\* line 158 is entered with the error
SaveFails(w) ==
    /\ pc[w] \in {"mark", "attempt_done", "job_done"}
    /\ aborts < MaxAborts
    /\ aborts' = aborts + 1
    /\ attempt' = [attempt EXCEPT ![w] =
                      IF pc[w] = "mark" THEN [@ EXCEPT !.status = PROCESSING]
                      ELSE IF pc[w] = "attempt_done"
                           THEN [@ EXCEPT !.status = DONE, !.completed_at = now]
                           ELSE @]
    /\ job' = [job EXCEPT ![w] = IF pc[w] = "job_done"
                                   THEN [@ EXCEPT !.status = DONE] ELSE @]
    /\ \E msg \in StoreErrors : err' = [err EXCEPT ![w] = msg]
    /\ pc' = [pc EXCEPT ![w] = "handler"]
    /\ UNCHANGED <<now, db, reqs, held, claims, rescheds, rejected, shutdown, probe>>

\* worker.py:158-174  the handler, entered after a failed save
HandlerRun(w) ==
    /\ pc[w] = "handler"
    /\ Handle(w, err[w])
    /\ UNCHANGED <<now, results, reqs>>

\* an exception that leaves process_job and ends the loop
HandlerFailsCrash(w) ==
    /\ pc[w] \in {"evaluate", "handler", "fail_job"}
    /\ aborts < MaxAborts
    /\ aborts' = aborts + 1
    /\ pc' = [pc EXCEPT ![w] = "stopped"]
    /\ UNCHANGED <<now, db, reqs, locals, claims, rescheds, rejected, shutdown, probe>>

\* worker.py:168, 174, 180  a save() of the handler raises: the exception
\* leaves process_job, handle logs it (worker.py:54-56) and goes on
HandlerFails(w) ==
    /\ pc[w] \in {"evaluate", "handler", "fail_job"}
    /\ aborts < MaxAborts
    /\ aborts' = aborts + 1
    /\ Return(w)
    /\ UNCHANGED <<now, db, reqs, claims, rescheds, rejected, shutdown, probe>>

NextStoreFaults ==
    \/ Next
    \/ \E w \in Workers : SaveFails(w)
    \/ \E w \in Workers : HandlerRun(w)
    \/ \E w \in Workers : HandlerFails(w)

\* a save() of process_job may fail
SpecStoreFaults == Init /\ [][NextStoreFaults]_vars

\* a rollback that leaves the attempt row of a submit request behind
RequestAbortPartial(r) ==
    /\ aborts < MaxAborts
    /\ aborts' = aborts + 1
    /\ reqs' = Leave(r)
    /\ subs' = IF r.op = "submit"
               THEN Append(subs, [r.attempt EXCEPT !.submitted_at = now,
                                                   !.created_at = now])
               ELSE subs
    /\ UNCHANGED <<now, jobs, results, pc, locals, claims, rescheds, rejected, shutdown, probe>>

\* views.py:440-457, 659-671  the transaction of a request raises and rolls
\* back: the request answers with an error
RequestAbort(r) ==
    /\ aborts < MaxAborts
    /\ aborts' = aborts + 1
    /\ reqs' = Leave(r)
    /\ UNCHANGED <<now, db, pc, locals, claims, rescheds, rejected, shutdown, probe>>

NextFaults ==
    \/ Next
    \/ \E w \in Workers : ClaimAbort(w)
    \/ \E r \in DOMAIN reqs : RequestAbort(r)

\* a transaction, of claim_job or of a request, may roll back
SpecFaults == Init /\ [][NextFaults]_vars

\* ---------------------------------------------------------------- shutdown
\* worker.py:61-70  handle_shutdown, the handler of SIGINT and SIGTERM: it
\* sets the flag and returns to the interrupted code
Signal(w) ==
    /\ pc[w] # "stopped"
    /\ ~shutdown[w]
    /\ shutdown' = [shutdown EXCEPT ![w] = TRUE]
    /\ UNCHANGED <<now, db, reqs, pc, locals, history, probe>>

\* a signal that ends the process where it stands
ExitAnywhere(w) ==
    /\ pc[w] # "stopped"
    /\ shutdown[w]
    /\ pc' = [pc EXCEPT ![w] = "stopped"]
    /\ UNCHANGED <<now, db, reqs, locals, history, shutdown, probe>>

\* worker.py:48,59  the loop condition is found false at the top of the
\* loop and handle returns
Exit(w) ==
    /\ pc[w] = "idle"
    /\ shutdown[w]
    /\ pc' = [pc EXCEPT ![w] = "stopped"]
    /\ UNCHANGED <<now, db, reqs, locals, history, shutdown, probe>>

\* the workers receive shutdown signals
NextShutdown ==
    \/ Next
    \/ \E w \in Workers : Signal(w)
    \/ \E w \in Workers : Exit(w)

SpecShutdown == Init /\ [][NextShutdown]_vars

\* worker.py:48-59  what the worker process does next, wherever it is in
\* handle, claim_job or process_job
WorkerStep(w) ==
    \/ ClaimSelect(w)
    \/ ClaimUpdate(w)
    \/ ProcessLoad(w)
    \/ MarkProcessing(w)
    \/ Evaluate(w)
    \/ AttemptDone(w)
    \/ JobDone(w)
    \/ FailJob(w)
    \/ Exit(w)

\* the workers receive shutdown signals while submissions arrive; no owner
\* asks for a retry
NextLoop ==
    \/ Tick
    \/ \E u \in Users, e \in Essays : SubmitCheck(u, e)
    \/ \E r \in DOMAIN reqs : SubmitCreate(r)
    \/ \E w \in Workers : WorkerStep(w)
    \/ \E w \in Workers : Signal(w)

\* every worker process keeps running: store operations and the scoring call
\* return or fail, and the sleeps of the loop end
SpecLoopFair ==
    Init /\ [][NextLoop]_vars /\ \A w \in Workers : WF_vars(WorkerStep(w))

\* ------------------------------------------------------------------ crash
\* worker.py:111-180  the worker process ends inside process_job (it is
\* killed, or its host goes down): nothing more is saved, its instances are
\* gone
Crash(w) ==
    /\ pc[w] \in {"process", "mark", "evaluate", "attempt_done", "job_done", "fail_job"}
    /\ pc' = [pc EXCEPT ![w] = "stopped"]
    /\ held' = [held EXCEPT ![w] = 0]
    /\ job' = [job EXCEPT ![w] = NoJob]
    /\ attempt' = [attempt EXCEPT ![w] = NoAttempt]
    /\ err' = [err EXCEPT ![w] = Null]
    /\ UNCHANGED <<now, db, reqs, history, shutdown, probe>>

NextCrash == Next \/ \E w \in Workers : Crash(w)

\* a worker may stop while it processes a Job
SpecCrash == Init /\ [][NextCrash]_vars

\* ---------------------------------------------------------------- progress
\* time passes while a rescheduled Job waits for its run_after
Advance ==
    /\ \E j \in DOMAIN jobs : jobs[j].status = PENDING /\ jobs[j].run_after > now
    /\ now' = now + TickSeconds
    /\ UNCHANGED <<db, reqs, pc, locals, history, shutdown, probe>>

\* worker.py:48-57  what a worker that is never told to stop does next
WorkerRun(w) ==
    \/ ClaimSelect(w)
    \/ ClaimUpdate(w)
    \/ ProcessLoad(w)
    \/ MarkProcessing(w)
    \/ Evaluate(w)
    \/ AttemptDone(w)
    \/ JobDone(w)
    \/ FailJob(w)
    \/ HandlerRun(w)

\* submissions arrive and are processed; a save() of process_job may fail
NextProgress ==
    \/ Tick
    \/ Advance
    \/ \E u \in Users, e \in Essays : SubmitCheck(u, e)
    \/ \E r \in DOMAIN reqs : SubmitCreate(r)
    \/ \E w \in Workers : WorkerRun(w)
    \/ \E w \in Workers : SaveFails(w)
    \/ \E w \in Workers : HandlerFails(w)

\* every worker keeps running, every scoring call returns or fails, and time
\* passes every run_after
SpecProgressFair ==
    /\ Init /\ [][NextProgress]_vars
    /\ WF_vars(Tick \/ Advance)
    /\ \A w \in Workers : WF_vars(WorkerRun(w))

\* ------------------------------------------------- functions on their own
\* The payloads the functions are applied to, one per choice of a case for
\* each part of the dict.
BandCases == {"absent", "valid", "high", "offgrid"}
CriteriaCases == {"absent", "valid", "partial", "extra", "low"}
FeedbackCases == {"absent", "valid", "partial", "scalar", "empty", "extra"}
FixesCases == {"absent", "two", "three", "six", "scalar"}
ExtraCases == {"none", "extra"}

EmptyDict == [k \in {} |-> Null]
ValidScores == get_mock_evaluation(260).criteria_scores
ValidFeedback == get_mock_evaluation(260).feedback

\* the dict with the key set when the case is not "absent"
WithBand(d, c) ==
    IF c = "absent" THEN d
    ELSE Put(d, "overall_band", IF c = "valid" THEN 70 ELSE IF c = "high" THEN 95 ELSE 72)

WithCriteria(d, c) ==
    IF c = "absent" THEN d
    ELSE Put(d, "criteria_scores",
             IF c = "valid" THEN ValidScores
             ELSE IF c = "partial"
                  THEN [k \in {"task_response", "lexical_resource"} |-> ValidScores[k]]
             ELSE IF c = "extra" THEN Put(ValidScores, "fluency", 70)
             ELSE Put(ValidScores, "grammar_accuracy", 5))

WithFeedback(d, c) ==
    IF c = "absent" THEN d
    ELSE Put(d, "feedback",
             IF c = "valid" THEN ValidFeedback
             ELSE IF c = "partial"
                  THEN [k \in {"task_response", "lexical_resource"} |-> ValidFeedback[k]]
             ELSE IF c = "scalar" THEN Put(ValidFeedback, "task_response", Other("Good"))
             ELSE IF c = "empty" THEN Put(ValidFeedback, "task_response", List(<<>>))
             ELSE Put(ValidFeedback, "fluency", List(<<"point 1">>)))

WithFixes(d, c) ==
    IF c = "absent" THEN d
    ELSE Put(d, "priority_fixes",
             IF c = "two" THEN List(<<"fix 1", "fix 2">>)
             ELSE IF c = "three" THEN List(<<"fix 1", "fix 2", "fix 3">>)
             ELSE IF c = "six"
                  THEN List(<<"fix 1", "fix 2", "fix 3", "fix 4", "fix 5", "fix 6">>)
             ELSE Other("Rewrite the introduction"))

WithExtra(d, c) == IF c = "none" THEN d ELSE Put(d, "comment", Other("n/a"))

Payloads ==
    { WithExtra(WithFixes(WithFeedback(WithCriteria(WithBand(EmptyDict, b), c), f), x), e) :
        b \in BandCases, c \in CriteriaCases, f \in FeedbackCases,
        x \in FixesCases, e \in ExtraCases }

\* a function and the argument it is about to be applied to
Probes ==
    [fn : {"is_transient_error"}, arg : Messages]
      \cup [fn : {"model_validate", "repair_evaluation"}, arg : Payloads]

InitProbe == Start /\ probe \in Probes

\* worker.py:161  is_transient = self.is_transient_error(e)
ApplyClassify ==
    /\ probe.fn = "is_transient_error" /\ "out" \notin DOMAIN probe
    /\ probe' = [fn |-> probe.fn, arg |-> probe.arg, out |-> is_transient_error(probe.arg)]
    /\ UNCHANGED <<now, db, reqs, pc, locals, history, shutdown>>

\* worker.py:128  EvaluationSchema.model_validate(result): out tells whether
\* it returned
ApplyValidate ==
    /\ probe.fn = "model_validate" /\ "out" \notin DOMAIN probe
    /\ probe' = [fn |-> probe.fn, arg |-> probe.arg, out |-> Validate(probe.arg)]
    /\ UNCHANGED <<now, db, reqs, pc, locals, history, shutdown>>

\* worker.py:132  result = self.repair_evaluation(result)
ApplyRepair ==
    /\ probe.fn = "repair_evaluation" /\ "out" \notin DOMAIN probe
    /\ probe' = [fn |-> probe.fn, arg |-> probe.arg, out |-> repair_evaluation(probe.arg)]
    /\ UNCHANGED <<now, db, reqs, pc, locals, history, shutdown>>

NextProbe == ApplyClassify \/ ApplyValidate \/ ApplyRepair

\* one function of the worker applied to one argument
SpecProbe == InitProbe /\ [][NextProbe]_vars

\* ------------------------------------------------------------------ claims
\* the workers whose Job instance is row j
Holders(j) == { w \in Workers : held[w] = j }

\* claim_job has returned the job to handle, which is inside process_job
InProcess(w) == pc[w] \notin {"idle", "claim_locked", "stopped"}

\* C1: a Job is handed to at most one worker per Pending period: no two
\* workers hold the same Job, the number of successful claims of a Job is
\* the number of its Pending periods that have ended, and a Running Job has
\* exactly one lock owner, the worker that is processing it.
C1_NoDoubleClaim ==
    \A j \in DOMAIN jobs :
        /\ Cardinality(Holders(j)) <= 1
        /\ claims[j] = rescheds[j] + (IF jobs[j].status = PENDING THEN 0 ELSE 1)
        /\ jobs[j].status = RUNNING =>
             \E w \in Holders(j) :
                 /\ InProcess(w)
                 /\ jobs[j].locked_by = worker_id(w)
                 /\ \A v \in Workers \ {w} : jobs[j].locked_by # worker_id(v)

\* a Job in its second Pending period was claimed by one worker while the
\* other worker came back from claim_job with nothing
C1_Witness ==
    \E j \in DOMAIN jobs : \E w \in Workers : \E v \in Workers \ {w} :
        /\ jobs[j].status = RUNNING /\ claims[j] = 2
        /\ held[w] = j /\ pc[w] = "process"
        /\ held[v] = 0 /\ pc[v] = "idle"

\* C2: a successful claim by worker w changes the Job in one step from
\* Pending to Running with lock timestamp = now, lock owner = w and attempt
\* counter = old value + 1; no step of the system shows the stored Job with
\* only part of these changes (every step that touches the Running status,
\* the lock fields or the attempt counter of a Job is such a whole claim).
C2_ClaimAtomic ==
    [][\A j \in DOMAIN jobs :
          (\/ jobs'[j].status = RUNNING /\ jobs[j].status # RUNNING
           \/ jobs'[j].locked_at # jobs[j].locked_at
           \/ jobs'[j].locked_by # jobs[j].locked_by
           \/ jobs'[j].attempts # jobs[j].attempts)
          => /\ jobs[j].status = PENDING
             /\ \E w \in Workers :
                  /\ pc[w] = "claim_locked" /\ pc'[w] = "process" /\ held[w] = j
                  /\ jobs'[j] = [jobs[j] EXCEPT !.status = RUNNING,
                                                !.locked_at = now,
                                                !.locked_by = worker_id(w),
                                                !.attempts = jobs[j].attempts + 1]
                  /\ job'[w] = jobs'[j]]_vars

\* a worker has just claimed a Job that had been claimed before, at a later
\* time than the first claim
C2_Witness ==
    \E w \in Workers :
        /\ pc[w] = "process"
        /\ jobs[held[w]].status = RUNNING
        /\ jobs[held[w]].locked_at = now /\ now > 0
        /\ jobs[held[w]].locked_by = worker_id(w)
        /\ jobs[held[w]].attempts = 2

\* C3: the Job a claim selects is Pending with not-before <= now and is the
\* earliest created such Job not held by a concurrent claimer; a Job whose
\* not-before lies in the future is never selected nor returned.
C3_ClaimOrder ==
    [][\A w \in Workers :
          /\ (pc[w] = "idle" /\ pc'[w] = "claim_locked") =>
               /\ held'[w] \in DOMAIN jobs
               /\ jobs[held'[w]].status = PENDING
               /\ jobs[held'[w]].run_after <= now
               /\ \A k \in DOMAIN jobs :
                    (k < held'[w] /\ jobs[k].status = PENDING
                                  /\ jobs[k].run_after <= now)
                    => \E v \in Workers \ {w} :
                           pc[v] = "claim_locked" /\ held[v] = k
          /\ (pc[w] = "claim_locked" /\ pc'[w] = "process") =>
               /\ jobs[held[w]].status = PENDING
               /\ jobs[held[w]].run_after <= now]_vars

\* a worker has selected a Job while an older Job, rescheduled after a
\* transient failure, is Pending with its not-before still in the future
C3_Witness ==
    \E w \in Workers : \E k \in DOMAIN jobs :
        /\ pc[w] = "claim_locked"
        /\ k < held[w]
        /\ jobs[k].status = PENDING /\ jobs[k].attempts = 1
        /\ jobs[k].run_after > now

\* C4: the attempt counter of every Job equals the number of times the Job
\* has been successfully claimed, in the store and in the instance of the
\* worker processing it (the number of claims only grows, so the counter
\* never decreases and no other operation changes it).
C4_AttemptsCountClaims ==
    /\ \A j \in DOMAIN jobs : jobs[j].attempts = claims[j]
    /\ \A w \in Workers : InProcess(w) => job[w].attempts = claims[held[w]]

\* a Job claimed twice, rescheduled in between, next to a Job created by an
\* owner's retry
C4_Witness ==
    \E j \in DOMAIN jobs : \E k \in DOMAIN jobs :
        /\ jobs[j].attempts = 2 /\ rescheds[j] = 1
        /\ k # j /\ jobs[k].attempt = jobs[j].attempt

\* C5: claiming is non-blocking: concurrent claimers hold distinct Jobs, and
\* a worker that starts a claim while some eligible Job is not held by an
\* in-progress claim obtains a Job at once, whatever the others hold.
C5_NonBlocking ==
    /\ \A w \in Workers : \A v \in Workers \ {w} :
          (pc[w] = "claim_locked" /\ pc[v] = "claim_locked") => held[w] # held[v]
    /\ \A w \in Workers :
          (/\ pc[w] = "idle"
           /\ \E j \in DOMAIN jobs :
                /\ jobs[j].status = PENDING /\ jobs[j].run_after <= now
                /\ \A v \in Workers : ~(pc[v] = "claim_locked" /\ held[v] = j))
          => ENABLED (ClaimSelect(w) /\ pc'[w] = "claim_locked")

\* two claims in progress at once, the second one having skipped the
\* earliest eligible Job
C5_Witness ==
    \E w \in Workers : \E v \in Workers \ {w} :
        /\ pc[w] = "claim_locked" /\ pc[v] = "claim_locked"
        /\ held[w] < held[v]
        /\ Eligible(held[w]) /\ Eligible(held[v])

\* C6: a claim that fails internally returns None and leaves every Job and
\* every Submission (and every result) as it was.
C6_FailedClaimChangesNothing ==
    [][\A w \in Workers :
          (pc[w] = "claim_locked" /\ pc'[w] = "idle")
          => /\ jobs' = jobs /\ subs' = subs /\ results' = results
             /\ held'[w] = 0 /\ job'[w] = NoJob]_vars

\* a claim was rolled back and its Job is still Pending and unclaimed
C6_Witness ==
    /\ aborts > 0
    /\ \E j \in DOMAIN jobs :
         jobs[j] = [NewJob(jobs[j].attempt) EXCEPT !.run_after = jobs[j].run_after]
    /\ \E w \in Workers : pc[w] = "idle" /\ held[w] = 0

\* process_job reschedules the Job of worker w in this step
Rescheduled(w) ==
    /\ pc[w] = "evaluate" /\ pc'[w] = "idle"
    /\ rescheds'[held[w]] = rescheds[held[w]] + 1

\* C7: when processing fails with a transient error under the retry limit,
\* the Job returns to Pending with not-before = now + 30 x attempt counter
\* and last_error set to the message, while its Submission stays Processing
\* with no error message.
C7_TransientReschedule ==
    [][\A w \in Workers :
          Rescheduled(w) =>
            /\ jobs[held[w]].attempts < 2
            /\ jobs'[held[w]].status = PENDING
            /\ jobs'[held[w]].run_after = now + 30 * jobs[held[w]].attempts
            /\ is_transient_error(jobs'[held[w]].last_error)
            /\ subs'[jobs[held[w]].attempt].status = PROCESSING
            /\ subs'[jobs[held[w]].attempt].error_message = Null]_vars

\* the scoring call of worker w fails with a transient error in this step
\* and the handler has made its first save
TransientFailure(w) ==
    /\ pc[w] = "evaluate"
    /\ \/ Rescheduled(w)
       \/ pc'[w] = "fail_job" /\ is_transient_error(err'[w])

\* C8 as stated: a transient failure of the second attempt reschedules the
\* Job to Pending with not-before = now + 60 seconds.
C8_SecondAttemptRescheduled ==
    [][\A w \in Workers :
          (TransientFailure(w) /\ jobs[held[w]].attempts = 2)
          => /\ jobs'[held[w]].status = PENDING
             /\ jobs'[held[w]].run_after = now + 60]_vars

\* C8 as the code has it: a transient failure of the second attempt does
\* not reschedule the Job: the Job stays Running with its not-before as it
\* was while the Submission is saved as Failed with the error, and the next
\* step of the handler saves the Job as Failed with the error as last_error.
C8_SecondAttemptFails ==
    [][\A w \in Workers :
          /\ (TransientFailure(w) /\ jobs[held[w]].attempts = 2)
             => /\ pc'[w] = "fail_job"
                /\ jobs'[held[w]] = jobs[held[w]]
                /\ subs'[jobs[held[w]].attempt].status = FAILED
                /\ subs'[jobs[held[w]].attempt].error_message = err'[w]
          /\ (pc[w] = "fail_job" /\ pc'[w] = "idle" /\ jobs[held[w]].attempts = 2)
             => jobs'[held[w]] = [jobs[held[w]] EXCEPT !.status = FAILED,
                                                       !.last_error = err[w]]]_vars

\* a Job whose second attempt failed with a transient error is Failed with
\* that error, its not-before still the one of its only reschedule
C8_Witness ==
    \E j \in DOMAIN jobs :
        /\ jobs[j].status = FAILED /\ jobs[j].attempts = 2
        /\ jobs[j].last_error = MsgConnReset
        /\ jobs[j].run_after <= now
        /\ subs[jobs[j].attempt].status = FAILED

\* C9: a Job whose attempt counter has reached 2 is never Pending again:
\* every Job has attempts <= 2, a Pending Job has attempts < 2, and no Job
\* is rescheduled more than once.
C9_NoThirdCycle ==
    \A j \in DOMAIN jobs :
        /\ jobs[j].attempts <= 2
        /\ jobs[j].status = PENDING => jobs[j].attempts < 2
        /\ rescheds[j] <= 1

\* the handler is about to save as Failed a Job whose second attempt failed
\* with a transient error
C9_Witness ==
    \E w \in Workers :
        /\ pc[w] = "fail_job"
        /\ job[w].attempts = 2 /\ rescheds[held[w]] = 1
        /\ is_transient_error(err[w])

\* C10: a failure that is not transient never reschedules the Job: a Job
\* leaves Running for Pending only with a transient last_error, the handler
\* of a permanent error leaves the Job Running while it saves the
\* Submission, and its next step saves the Job as Failed on that attempt.
C10_PermanentFailsAtOnce ==
    [][/\ \A j \in DOMAIN jobs :
            (jobs[j].status = RUNNING /\ jobs'[j].status # RUNNING)
            => \/ jobs'[j].status \in {DONE, FAILED}
               \/ /\ jobs'[j].status = PENDING
                  /\ is_transient_error(jobs'[j].last_error)
       /\ \A w \in Workers :
            /\ (pc[w] = "evaluate" /\ pc'[w] = "fail_job"
                                   /\ ~is_transient_error(err'[w]))
               => jobs'[held[w]] = jobs[held[w]]
            /\ (pc[w] = "fail_job" /\ ~is_transient_error(err[w])
                                   /\ pc'[w] # "fail_job")
               => /\ jobs'[held[w]].status = FAILED
                  /\ jobs'[held[w]].last_error = err[w]
                  /\ jobs'[held[w]].attempts = jobs[held[w]].attempts
                  /\ rescheds'[held[w]] = rescheds[held[w]]]_vars

\* a Job is Failed after one attempt with a permanent error and was never
\* rescheduled
C10_Witness ==
    \E j \in DOMAIN jobs :
        /\ jobs[j].status = FAILED /\ jobs[j].attempts = 1
        /\ jobs[j].last_error \in {MsgFailme, MsgValidation}
        /\ rescheds[j] = 0

\* the jobs of Submission s that are Pending or Running
ActiveJobs(s) ==
    { j \in DOMAIN jobs : jobs[j].attempt = s /\ jobs[j].status \in {PENDING, RUNNING} }

\* the job rows a step inserts
NewJobRows == DOMAIN jobs' \ DOMAIN jobs

\* C11: whenever the worker moves a Job to Failed, the Job's Submission is
\* Failed as well and carries the Job's last_error as its error message.
C11_FailedTogether ==
    [][\A w \in Workers :
          (pc[w] = "fail_job" /\ pc'[w] = "idle")
          => /\ jobs'[held[w]].status = FAILED
             /\ subs'[jobs[held[w]].attempt].status = FAILED
             /\ subs'[jobs[held[w]].attempt].error_message
                  = jobs'[held[w]].last_error]_vars

\* C12: whenever a Job is Done, its Submission is Done with a completion
\* timestamp and a Scoring Result is persisted for it.
C12_DoneTogether ==
    \A j \in DOMAIN jobs :
        jobs[j].status = DONE =>
          /\ subs[jobs[j].attempt].status = DONE
          /\ subs[jobs[j].attempt].completed_at # NoTime
          /\ \E r \in results : r.attempt = jobs[j].attempt

\* C13: every exit of process_job, by return or by an exception, leaves
\* the (Submission, Job) status pair in (Done, Done), (Processing, Pending)
\* or (Failed, Failed).
C13_ExitPairs ==
    [][\A w \in Workers :
          (InProcess(w) /\ pc'[w] = "idle")
          => <<subs'[jobs[held[w]].attempt].status, jobs'[held[w]].status>>
               \in {<<DONE, DONE>>, <<PROCESSING, PENDING>>, <<FAILED, FAILED>>}]_vars

\* C14: in every reachable state, a Scoring Result exists for a Submission
\* only if the Submission is Done.
C14_ResultImpliesDone ==
    \A r \in results : subs[r.attempt].status = DONE

\* C15: each Submission has at most one Scoring Result, and a result once
\* created is never modified, replaced or deleted: every step keeps every
\* result, and adds a result only for a Submission that has none.
C15_OneResultForever ==
    [][/\ results \subseteq results'
       /\ \A r \in results' \ results :
            /\ ~(\E old \in results : old.attempt = r.attempt)
            /\ \A other \in results' \ results : other.attempt = r.attempt => other = r
      ]_vars

\* a second Job of a Submission that has its result was processed: the
\* insert of another result was refused, the first result is still the only
\* one
C15_Witness ==
    \E j \in DOMAIN jobs :
        /\ jobs[j].last_error = MsgIntegrity
        /\ Cardinality({ r \in results : r.attempt = jobs[j].attempt }) = 1

\* C16: in every reachable state each Submission has at most one Job that
\* is Pending or Running.
C16_OneActiveJob ==
    \A s \in DOMAIN subs : Cardinality(ActiveJobs(s)) <= 1

\* C17: a retry on a Submission whose status is not Failed creates no Job
\* and leaves the Submission's status, error message and submission
\* timestamp as they are: no step inserts a Job for an existing Submission
\* that is not Failed, nor moves its submission timestamp.
C17_RetryOnlyWhenFailed ==
    [][\A s \in DOMAIN subs :
          subs[s].status # FAILED
          => /\ ~(\E j \in NewJobRows : jobs'[j].attempt = s)
             /\ subs'[s].submitted_at = subs[s].submitted_at]_vars

\* C18: a retry sets the Submission to Queued with its error message
\* cleared and, in the same step, creates exactly one new Job that is
\* Pending with attempts = 0 and no lock owner, leaving every existing Job
\* as it is; a Failed Job is never changed again, so it is not resumed and
\* not claimed again.
C18_RetryCreatesFreshJob ==
    [][/\ \A s \in DOMAIN subs :
            (\E j \in NewJobRows : jobs'[j].attempt = s)
            => /\ subs'[s].status = QUEUED
               /\ subs'[s].error_message = Null
               /\ subs'[s].submitted_at = now
               /\ NewJobRows = {Len(jobs) + 1}
               /\ jobs'[Len(jobs) + 1] =
                    [attempt |-> s, status |-> PENDING, run_after |-> now,
                     locked_at |-> NoTime, locked_by |-> Null, attempts |-> 0,
                     last_error |-> Null]
               /\ \A j \in DOMAIN jobs : jobs'[j] = jobs[j]
       /\ \A j \in DOMAIN jobs :
            jobs[j].status = FAILED => (jobs'[j] = jobs[j] /\ claims'[j] = claims[j])
      ]_vars

\* the Job a retry created has been claimed and is Running with attempts =
\* 1, while the earlier Job of the Submission is Failed with the attempts
\* and the error it ended with
C18_Witness ==
    \E j \in DOMAIN jobs : \E k \in DOMAIN jobs :
        /\ j < k /\ jobs[j].attempt = jobs[k].attempt
        /\ jobs[j].status = FAILED /\ jobs[j].attempts = claims[j]
        /\ jobs[j].last_error # Null
        /\ jobs[k].status = RUNNING /\ jobs[k].attempts = 1
        /\ subs[jobs[k].attempt].error_message = Null

\* C19: a submit request whose essay has fewer words than the task's
\* minimum of 150 persists nothing: no Submission (and so no Job) holds an
\* essay under the minimum or an essay whose request was rejected, and no
\* such request is on its way to the transaction.
C19_NoShortSubmission ==
    /\ \A s \in DOMAIN subs :
         /\ subs[s].word_count = count_words(subs[s].essay_text)
         /\ subs[s].word_count >= 150
         /\ subs[s].essay_text \notin rejected
    /\ \A r \in DOMAIN reqs :
         r.op = "submit" => (r.attempt.word_count >= 150
                             /\ r.attempt.essay_text \notin rejected)
    /\ \A e \in rejected : count_words(e) < 150
    /\ \A j \in DOMAIN jobs : jobs[j].attempt \in DOMAIN subs

\* the essays of 80 and of 149 words were both rejected while an accepted
\* Submission and its Job exist and nothing else was written
C19_Witness ==
    /\ rejected = {EssayShort, EssayAlmost}
    /\ Len(subs) = 1 /\ Len(jobs) = 1
    /\ subs[1].word_count = 260

\* C20: an accepted submit creates the Queued Submission and its Pending
\* Job (attempts = 0) in one step; every Submission has a Job and every Job
\* its Submission in every state; a step in which a transaction rolls back
\* leaves no row of either table.
C20_SubmissionWithJob ==
    /\ [](/\ \A s \in DOMAIN subs : \E j \in DOMAIN jobs : jobs[j].attempt = s
          /\ \A j \in DOMAIN jobs : jobs[j].attempt \in DOMAIN subs)
    /\ [][/\ Len(subs') # Len(subs) =>
               /\ Len(subs') = Len(subs) + 1
               /\ Len(jobs') = Len(jobs) + 1
               /\ subs'[Len(subs')].status = QUEUED
               /\ jobs'[Len(jobs')].attempt = Len(subs')
               /\ jobs'[Len(jobs')].status = PENDING
               /\ jobs'[Len(jobs')].attempts = 0
          /\ aborts' # aborts => (subs' = subs /\ jobs' = jobs)
         ]_vars

\* after a rollback, a submit request that went through has its Queued
\* Submission and its Pending Job
C20_Witness ==
    /\ aborts = 1
    /\ Len(subs) = 1 /\ Len(jobs) = 1
    /\ subs[1].status = QUEUED
    /\ jobs[1].status = PENDING /\ jobs[1].attempts = 0 /\ jobs[1].attempt = 1
    /\ \A w \in Workers : pc[w] = "idle"

\* C21: no two Submissions of one owner for the task are Queued or Processing
\* at the same time with creation times within the de-duplication window of
\* each other
C21_NoDuplicateActive ==
    \A s, t \in DOMAIN subs :
        ( /\ s < t
          /\ subs[s].user = subs[t].user
          /\ subs[s].status \in {QUEUED, PROCESSING}
          /\ subs[t].status \in {QUEUED, PROCESSING} )
        => subs[t].created_at - subs[s].created_at > DedupSeconds

C23_StopsAfterShutdown ==
    /\ \A w \in Workers : shutdown[w] ~> (pc[w] = "stopped")
    /\ [][\A w \in Workers :
            shutdown[w] =>
                /\ shutdown'[w]
                /\ pc[w] = "idle" => pc'[w] \in {"idle", "stopped"}
                /\ pc[w] = "stopped" => pc'[w] = "stopped"]_vars

\* a worker has left its loop although a Pending Job is due and unlocked
C23_Witness ==
    \E w \in Workers :
        /\ pc[w] = "stopped"
        /\ \E j \in DOMAIN jobs : Claimable(j)

\* C24: with no shutdown requested no worker ever leaves its loop, whatever
\* exception process_job raised, and a worker at the top of the loop can
\* attempt a claim
C24_LoopSurvivesFailure ==
    \A w \in Workers :
        ~shutdown[w] =>
            /\ pc[w] # "stopped"
            /\ pc[w] = "idle" => ENABLED ClaimSelect(w)

\* an exception has left process_job and the Job is still Running with no
\* worker on it, and the worker that had claimed it is processing another Job
C24_Witness ==
    \E j \in DOMAIN jobs, w \in Workers :
        /\ aborts > 0
        /\ jobs[j].status = RUNNING /\ Holders(j) = {}
        /\ jobs[j].locked_by = worker_id(w)
        /\ InProcess(w) /\ held[w] # j

\* C25: every Submission that is Queued is eventually Done or Failed
C25_EventuallyTerminal ==
    \A s \in 1..MaxSubs :
        (s \in DOMAIN subs /\ subs[s].status = QUEUED)
            ~> (s \in DOMAIN subs /\ subs[s].status \in {DONE, FAILED})

\* C26: an error is classified transient exactly when its message contains,
\* in some letter case, one of "timeout", "connection", "network",
\* "temporary", "rate limit", "quota".  Of the messages examined these are:
\* "Connection reset by peer", "connection already closed", "Request
\* Timeout", "NETWORK is unreachable", "Temporary failure in name
\* resolution", "429 Rate Limit exceeded", "Quota exceeded for model" and the
\* validation message that names the field network_note; "timed out" and
\* "rate-limited" contain none of the six.
C26_TransientIffKeyword ==
    (probe.fn = "is_transient_error" /\ "out" \in DOMAIN probe) =>
        ( probe.out <=>
            probe.arg \in {MsgConnReset, MsgDbClosed, MsgTimeout, MsgNetwork,
                           MsgTemporary, MsgRateLimit, MsgQuota, MsgValidationExtra} )

\* "429 Rate Limit exceeded" has been classified, and found transient
C26_Witness ==
    /\ probe.fn = "is_transient_error" /\ "out" \in DOMAIN probe
    /\ probe.arg = MsgRateLimit /\ probe.out

\* C27: a payload that is still invalid after the one repair makes the Job
\* Failed at once, never Pending again: a Job whose last error is the
\* validation failure is Failed
C27_InvalidAfterRepairFails ==
    \A j \in DOMAIN jobs :
        jobs[j].last_error \in {MsgValidation, MsgValidationExtra} =>
            jobs[j].status = FAILED

\* C28: an error raised by the store while process_job saves a row is
\* permanent: a Job whose last error is such an error is Failed, it is never
\* put back to Pending
C28_StoreErrorFails ==
    \A j \in DOMAIN jobs :
        jobs[j].last_error \in StoreErrors => jobs[j].status = FAILED

\* C29: validation accepts a payload exactly when the overall band and the
\* four criterion scores are in [1.0, 9.0] on the 0.5 grid, each of the four
\* feedback entries is a non-empty list, the priority-fix list has 3 to 5
\* items, and no dict of the payload has a key the schema does not know
C29_ValidateIff ==
    (probe.fn = "model_validate" /\ "out" \in DOMAIN probe) =>
        LET p == probe.arg
            OnGrid(v) == v \in {10, 15, 20, 25, 30, 35, 40, 45, 50, 55, 60, 65, 70,
                                75, 80, 85, 90}
            has(k) == k \in DOMAIN p
        IN  probe.out <=>
              /\ has("overall_band") /\ OnGrid(p.overall_band)
              /\ has("criteria_scores")
              /\ DOMAIN p.criteria_scores = criteria_keys
              /\ \A k \in criteria_keys : OnGrid(p.criteria_scores[k])
              /\ has("feedback")
              /\ DOMAIN p.feedback = criteria_keys
              /\ \A k \in criteria_keys :
                   p.feedback[k].type = "list" /\ p.feedback[k].items # <<>>
              /\ has("priority_fixes")
              /\ p.priority_fixes.type = "list"
              /\ Len(p.priority_fixes.items) \in 3..5
              /\ DOMAIN p \subseteq schema_keys

\* C30: repair gives a missing overall band the value 5.0, each missing
\* criterion score 5.0, each missing feedback entry the one-item placeholder
\* list, turns each feedback value that is not a list into the one-item list
\* of its string form, gives a missing priority-fix list the three built-in
\* placeholders, and leaves every other field of the payload as it was
C30_RepairDefaults ==
    (probe.fn = "repair_evaluation" /\ "out" \in DOMAIN probe) =>
        LET p == probe.arg
            r == probe.out
            scores == IF "criteria_scores" \in DOMAIN p THEN p.criteria_scores ELSE EmptyDict
            pf == IF "feedback" \in DOMAIN p THEN p.feedback ELSE EmptyDict
        IN  /\ DOMAIN r = DOMAIN p \cup {"overall_band", "criteria_scores", "feedback",
                                        "priority_fixes"}
            /\ r.overall_band = IF "overall_band" \in DOMAIN p THEN p.overall_band ELSE 50
            /\ DOMAIN r.criteria_scores = DOMAIN scores \cup criteria_keys
            /\ \A k \in DOMAIN r.criteria_scores :
                 r.criteria_scores[k] = IF k \in DOMAIN scores THEN scores[k] ELSE 50
            /\ DOMAIN r.feedback = DOMAIN pf \cup criteria_keys
            /\ \A k \in DOMAIN r.feedback :
                 r.feedback[k] =
                   IF k \notin DOMAIN pf
                   THEN [type |-> "list", items |-> <<"No feedback available">>]
                   ELSE IF k \in criteria_keys /\ pf[k].type # "list"
                        THEN [type |-> "list", items |-> pf[k].items]
                        ELSE pf[k]
            /\ "priority_fixes" \notin DOMAIN p =>
                 r.priority_fixes =
                   [type |-> "list",
                    items |-> <<"Focus on task requirements", "Improve organization",
                                "Enhance vocabulary">>]
            /\ \A k \in DOMAIN p \ {"overall_band", "criteria_scores", "feedback",
                                    "priority_fixes"} : r[k] = p[k]

\* repair has been applied to the empty payload
C30_Witness ==
    /\ probe.fn = "repair_evaluation" /\ "out" \in DOMAIN probe
    /\ DOMAIN probe.arg = {}
    /\ probe.out.overall_band = 50

\* C31: the priority-fix list repair returns has 3 to 5 items: a list of
\* fewer than 3 items keeps its items and is extended from the pool
\* "Improve clarity", "Enhance coherence", "Develop ideas" to exactly 3, a
\* list of more than 5 items is cut to its first 5, a list of 3 to 5 items
\* is unchanged
C31_FixesLength ==
    (probe.fn = "repair_evaluation" /\ "out" \in DOMAIN probe) =>
        LET p == probe.arg
            fixes == probe.out.priority_fixes
            pool == <<"Improve clarity", "Enhance coherence", "Develop ideas">>
        IN  /\ fixes.type = "list"
            /\ Len(fixes.items) \in 3..5
            /\ ("priority_fixes" \in DOMAIN p /\ p.priority_fixes.type = "list") =>
                 LET given == p.priority_fixes.items
                 IN  fixes.items =
                       IF Len(given) < 3
                       THEN given \o [i \in 1..(3 - Len(given)) |-> pool[i]]
                       ELSE IF Len(given) > 5
                            THEN [i \in 1..5 |-> given[i]]
                            ELSE given

\* repair has cut a list of six fixes to its first five
C31_Witness ==
    /\ probe.fn = "repair_evaluation" /\ "out" \in DOMAIN probe
    /\ "priority_fixes" \in DOMAIN probe.arg
    /\ probe.arg.priority_fixes.type = "list"
    /\ Len(probe.arg.priority_fixes.items) = 6
    /\ Len(probe.out.priority_fixes.items) = 5

\* C32: repair leaves every score that is present exactly as given, and a
\* payload with a present overall band or criterion score outside [1.0, 9.0]
\* or off the 0.5 grid is still rejected by validation after repair
C32_ScoresUntouched ==
    (probe.fn = "repair_evaluation" /\ "out" \in DOMAIN probe) =>
        LET p == probe.arg
            r == probe.out
            given == IF "criteria_scores" \in DOMAIN p
                     THEN DOMAIN p.criteria_scores ELSE {}
            Bad(v) == v < 10 \/ v > 90 \/ v % 5 # 0
        IN  /\ "overall_band" \in DOMAIN p => r.overall_band = p.overall_band
            /\ \A k \in given : r.criteria_scores[k] = p.criteria_scores[k]
            /\ ( \/ "overall_band" \in DOMAIN p /\ Bad(p.overall_band)
                 \/ \E k \in given \cap criteria_keys : Bad(p.criteria_scores[k]) )
               => ~Validate(r)

\* repair has been applied to a payload whose band 9.5 is above the scale
\* and whose priority fixes were missing: the band is still 9.5
C32_Witness ==
    /\ probe.fn = "repair_evaluation" /\ "out" \in DOMAIN probe
    /\ "overall_band" \in DOMAIN probe.arg /\ probe.arg.overall_band = 95
    /\ "priority_fixes" \notin DOMAIN probe.arg
    /\ probe.out.overall_band = 95

\* C33: when every reply is valid except for its missing priority_fixes, the
\* reply is repaired and the Job ends Done: a Job fails only for the FAILME
\* essay or for an error of the provider call
C33_RoundTripDone ==
    \A j \in DOMAIN jobs :
        jobs[j].status = FAILED => jobs[j].last_error \in {MsgFailme, MsgConnReset}

\* C34: with the mock scorer every accepted Submission is processed to Done
\* on the first attempt of its Job, and its result is the one the word count
\* of the Submission determines: band 7.0 from 250 words, 6.5 from 200, 6.0
\* from 150, else 5.0, and the criteria band, band - 0.5, band + 0.5, band
C34_MockDeterminedByWordCount ==
    /\ \A s \in DOMAIN subs : subs[s].status # FAILED
    /\ \A j \in DOMAIN jobs : jobs[j].status # FAILED /\ jobs[j].attempts <= 1
    /\ \A r \in results :
         LET n == subs[r.attempt].word_count
             band == IF n >= 250 THEN 70 ELSE IF n >= 200 THEN 65
                     ELSE IF n >= 150 THEN 60 ELSE 50
         IN  /\ r.overall_band = band
             /\ r.criteria_scores["task_response"] = band
             /\ r.criteria_scores["coherence_cohesion"] = band - 5
             /\ r.criteria_scores["lexical_resource"] = band + 5
             /\ r.criteria_scores["grammar_accuracy"] = band

\* C35: the status of a Job changes only from Pending to Running, and from
\* Running to Done, Pending or Failed; a Job that is Done or Failed keeps its
\* row as it is and is not claimed again; no Job row is deleted
C35_JobEdges ==
    [][\A j \in DOMAIN jobs :
          /\ j \in DOMAIN jobs'
          /\ jobs'[j].status # jobs[j].status =>
               <<jobs[j].status, jobs'[j].status>> \in
                   {<<PENDING, RUNNING>>, <<RUNNING, DONE>>,
                    <<RUNNING, PENDING>>, <<RUNNING, FAILED>>}
          /\ jobs[j].status \in {DONE, FAILED} =>
               jobs'[j] = jobs[j] /\ claims'[j] = claims[j]]_vars

\* one Job has gone Pending, Running, Pending, Running, Failed, another is
\* Done, and a third is Pending and due while a worker is at the top of its
\* loop
C35_Witness ==
    \E j, k, l \in DOMAIN jobs :
        /\ jobs[j].status = FAILED /\ rescheds[j] = 1
        /\ jobs[k].status = DONE
        /\ Claimable(l)
        /\ \E w \in Workers : pc[w] = "idle"

\* C36: the status of a Submission changes only from Queued to Processing,
\* from Processing to Done or Failed, and from Failed to Queued; a Submission
\* that is Done stays Done
C36_SubmissionEdges ==
    [][\A s \in DOMAIN subs :
          subs'[s].status # subs[s].status =>
              <<subs[s].status, subs'[s].status>> \in
                  {<<QUEUED, PROCESSING>>, <<PROCESSING, DONE>>,
                   <<PROCESSING, FAILED>>, <<FAILED, QUEUED>>}]_vars

\* C37: at most one Running Job has a given worker as its lock owner, and a
\* worker begins a claim only when no Job it claimed is Running
C37_OneJobPerWorker ==
    /\ \A w \in Workers :
         Cardinality({ j \in DOMAIN jobs :
                         jobs[j].status = RUNNING /\ jobs[j].locked_by = worker_id(w) }) <= 1
    /\ \A w \in Workers :
         pc[w] \in {"idle", "claim_locked"} =>
             \A j \in DOMAIN jobs :
                 ~(jobs[j].status = RUNNING /\ jobs[j].locked_by = worker_id(w))

C39_ActiveJobForOpenSubmission ==
    (\A j \in DOMAIN jobs : jobs[j].status = RUNNING => Holders(j) # {}) =>
        \A s \in DOMAIN subs :
            /\ subs[s].status \in {QUEUED, PROCESSING} =>
                 \E j \in DOMAIN jobs :
                     jobs[j].attempt = s /\ jobs[j].status \in {PENDING, RUNNING}
            /\ subs[s].status = QUEUED =>
                 \E j \in DOMAIN jobs :
                     /\ jobs[j].attempt = s
                     /\ \/ jobs[j].status = PENDING /\ jobs[j].attempts = 0
                        \/ /\ jobs[j].status = RUNNING
                           /\ \E w \in Holders(j) :
                                   pc[w] \in {"process", "mark", "handler"}

====
